---- MODULE Spec2Model ----
(***************************************************************************)
(* Model of src/app.py: the in-memory job registry JOBS guarded by         *)
(* JOBS_LOCK, the expiry sweep, the background generation worker and the   *)
(* /health, /excel/start and /excel/status handlers.                       *)
(*                                                                         *)
(* Every block of code that runs under JOBS_LOCK is one atomic step, but   *)
(* for the sweep that finds jobs to delete: it takes the lock in one step  *)
(* (cleanup_scan) and deletes records and files and releases the lock in   *)
(* a second (cleanup_delete), and between the two every step that needs    *)
(* the lock waits.  The worker's steps between two registry updates are    *)
(* separate steps, so any interleaving of workers, handlers and sweeps is  *)
(* explored.  A handler whose sweep finds nothing to delete is one step;   *)
(* otherwise its sweep runs first as the two steps above.  Only the last   *)
(* status response is kept: a poll for another id acts on the registry as  *)
(* /health does, so two polls of one id with other polls between them are  *)
(* covered by two consecutive polls with /health calls between them.       *)
(*                                                                         *)
(* Not modelled: the record fields job_id (it is the key), updated_at,     *)
(* base_url and output_filename, start_col, and the values written into    *)
(* the cells.  A stored file is named by the job id it embeds.             *)
(***************************************************************************)
EXTENDS Integers, Sequences, FiniteSets, TLC

\* ---------------------------------------------------------------- bounds
\* Number of job ids uuid4 hands out in one run of the model.
MaxJobs == 2
\* Number of times the clock advances.
MaxTicks == 2

\* ------------------------------------------------------------- constants
JOB_TTL_HOURS == 6
SecondsPerHour == 3600

\* One Tick advances the clock by the time to live, so that a job is seen by
\* sweeps at the age of exactly the time to live and beyond it.
TickSeconds == JOB_TTL_HOURS * SecondsPerHour

JobIds == 1..MaxJobs

\* Sheet names of the workbook template.
TemplateSheets == {"Sheet1"}

VARIABLES
    JOBS,       \* the registry: job id -> record, for the ids present
    files,      \* stored file names present in GENERATED_DIR
    now,        \* time.time()
    issued,     \* number of job ids issued so far
    thread,     \* job id -> the state of its generate_excel_job thread
    startResp,  \* the response of the last /excel/start call
    polled,     \* the last /excel/status call: the id asked for and the response
    JOBS_LOCK   \* whether a sweep holds the lock, and the time it read

vars == <<JOBS, files, now, issued, thread, startResp, polled, JOBS_LOCK>>

\* ------------------------------------------------------------ row parser
Whitespace == {" ", "\t"}

RECURSIVE SplitLinesFrom(_, _, _, _)
SplitLinesFrom(s, i, cur, acc) ==
    IF i > Len(s) THEN (IF cur = <<>> THEN acc ELSE Append(acc, cur))
    ELSE IF s[i] = "\n" THEN SplitLinesFrom(s, i + 1, <<>>, Append(acc, cur))
    ELSE SplitLinesFrom(s, i + 1, Append(cur, s[i]), acc)

\* str.splitlines(): a trailing line break opens no further line.
SplitLines(s) == SplitLinesFrom(s, 1, <<>>, <<>>)

\* ln.strip() == ""
IsBlank(ln) == \A i \in 1..Len(ln) : ln[i] \in Whitespace

RECURSIVE SplitColsFrom(_, _, _, _)
SplitColsFrom(ln, i, cur, acc) ==
    IF i > Len(ln) THEN Append(acc, cur)
    ELSE IF ln[i] = "|" THEN SplitColsFrom(ln, i + 1, <<>>, Append(acc, cur))
    ELSE SplitColsFrom(ln, i + 1, Append(cur, ln[i]), acc)

\* ln.split("|")
SplitCols(ln) == SplitColsFrom(ln, 1, <<>>, <<>>)

parse_rows_text(rows_text) ==
    IF rows_text = <<>> THEN <<>>
    ELSE LET lines == SplitLines(rows_text)
             kept == SelectSeq(lines, LAMBDA ln : ~IsBlank(ln))
         IN  [k \in 1..Len(kept) |-> SplitCols(kept[k])]

\* --------------------------------------------------------------- registry
StoredName(job_id) == job_id

FileUrl(stored) == <<"generated/", stored>>

NoUrl == <<>>

cutoff(t) == t - JOB_TTL_HOURS * SecondsPerHour

ToDelete(jobs, t) == {j \in DOMAIN jobs : jobs[j].created_at < cutoff(t)}

\* Mutant of SweptJobs: the files go and the records stay.
SweptJobsKept(jobs, t) == jobs

\* cleanup_old_jobs_and_files: the registry after the sweep
SweptJobs(jobs, t) == [j \in (DOMAIN jobs) \ ToDelete(jobs, t) |-> jobs[j]]

\* cleanup_old_jobs_and_files: GENERATED_DIR after the sweep
SweptFiles(jobs, fs, t) == fs \ {jobs[j].stored_filename : j \in ToDelete(jobs, t)}

\* dict.update(kwargs)
Merge(job, kwargs) ==
    [f \in (DOMAIN job) \cup (DOMAIN kwargs) |->
        IF f \in DOMAIN kwargs THEN kwargs[f] ELSE job[f]]

\* Mutant of update_job: a record is made for an id that has none.
update_job_upsert(jobs, job_id, kwargs) ==
    [j \in (DOMAIN jobs) \cup {job_id} |->
        IF j \in DOMAIN jobs THEN (IF j = job_id THEN Merge(jobs[j], kwargs) ELSE jobs[j])
        ELSE Merge([status |-> "queued", progress_percent |-> 0, error |-> "",
                    created_at |-> 0, stored_filename |-> job_id, file_url |-> <<>>],
                   kwargs)]

\* Mutant of update_job: the fields are merged into every record.
update_job_all(jobs, job_id, kwargs) ==
    [j \in DOMAIN jobs |-> Merge(jobs[j], kwargs)]

update_job(jobs, job_id, kwargs) ==
    IF job_id \notin DOMAIN jobs THEN jobs
    ELSE [jobs EXCEPT ![job_id] = Merge(@, kwargs)]

\* Mutant of NewJob: the file_url is filled in at creation.
NewJobWithUrl(t, stored) ==
    [status |-> "queued", progress_percent |-> 0, error |-> "",
     created_at |-> t, stored_filename |-> stored, file_url |-> <<"generated/", stored>>]

NewJob(t, stored) ==
    [status |-> "queued", progress_percent |-> 0, error |-> "",
     created_at |-> t, stored_filename |-> stored, file_url |-> NoUrl]

\* The lock when no thread holds it.
Unlocked == [held |-> FALSE, at |-> 0]

\* with JOBS_LOCK: the lock can be taken.
LockFree == ~JOBS_LOCK.held

\* --------------------------------------------------------------- payloads
\* JSON values of the "sheets" key.
JsonList(items) == [type |-> "list", items |-> items]

JsonString == [type |-> "string", items |-> <<>>]

\* int(s.get("start_row", 1)) succeeds on IntRow(n) and raises on BadRow.
IntRow(n) == [isint |-> TRUE, val |-> n]

BadRow == [isint |-> FALSE, val |-> 0]

Sheet(name, start_row, rows_text) ==
    [name |-> name, start_row |-> start_row, rows_text |-> rows_text]

BlankText == <<" ", "\n", "\n", "\t">>

TwoRowText == <<"a", "|", "b", "\n", "\n", "c", "\n">>

OneRowText == <<"a", "|">>

\* The request bodies the model submits to /excel/start.
Payloads ==
    { [filename |-> "f"],
      [filename |-> "f", sheets |-> JsonString],
      [filename |-> "f", sheets |-> JsonList(<<>>)],
      [filename |-> "f", sheets |-> JsonList(<<Sheet("Nope", IntRow(1), BlankText),
                                              Sheet("Sheet1", IntRow(1), <<>>)>>)],
      [filename |-> "f", sheets |-> JsonList(<<Sheet("Sheet1", IntRow(1), TwoRowText)>>)],
      [filename |-> "f", sheets |-> JsonList(<<Sheet("Nope", IntRow(1), OneRowText),
                                              Sheet("Sheet1", IntRow(1), TwoRowText)>>)],
      [filename |-> "f", sheets |-> JsonList(<<Sheet("Sheet1", BadRow, OneRowText)>>)],
      [filename |-> "f", sheets |-> JsonList(<<Sheet("Sheet1", IntRow(1), OneRowText),
                                              Sheet("Sheet1", IntRow(0), OneRowText)>>)] }

\* payload.get("sheets", [])
SheetsOf(payload) ==
    IF "sheets" \in DOMAIN payload THEN payload.sheets ELSE JsonList(<<>>)

\* isinstance(sheets, list)
IsNonEmptyList(v) == v.type = "list" /\ v.items # <<>>

IsList(v) == v.type = "list"

\* ----------------------------------------------------------------- worker
IdleThread ==
    [pc |-> "none", sheets |-> <<>>, parsed |-> <<>>, total_rows |-> 0,
     done_rows |-> 0, si |-> 1, ri |-> 1, wb |-> {}]

Init ==
    /\ JOBS = <<>>
    /\ files = {}
    /\ now = 0
    /\ issued = 0
    /\ thread = [j \in JobIds |-> IdleThread]
    /\ startResp = [code |-> 0]
    /\ polled = [job_id |-> 0, body |-> [code |-> 0]]
    /\ JOBS_LOCK = Unlocked

Tick ==
    /\ now < MaxTicks * TickSeconds
    /\ now' = now + TickSeconds
    /\ UNCHANGED <<JOBS, files, issued, thread, startResp, polled, JOBS_LOCK>>

\* The sweep takes the lock and collects the expired jobs.  The step stands
\* for the sweep of any handler that finds something to delete.
cleanup_scan ==
    /\ LockFree
    /\ ToDelete(JOBS, now) # {}
    /\ JOBS_LOCK' = [held |-> TRUE, at |-> now]
    /\ UNCHANGED <<JOBS, files, now, issued, thread, startResp, polled>>

\* Mutant of cleanup_delete: the lock is not released.
cleanup_delete_locked ==
    /\ JOBS_LOCK.held
    /\ JOBS' = SweptJobs(JOBS, JOBS_LOCK.at)
    /\ files' = SweptFiles(JOBS, files, JOBS_LOCK.at)
    /\ UNCHANGED <<now, issued, thread, startResp, polled, JOBS_LOCK>>

\* Still under the lock, the sweep deletes each expired record and removes
\* its stored file, then releases the lock.
cleanup_delete ==
    /\ JOBS_LOCK.held
    /\ JOBS' = SweptJobs(JOBS, JOBS_LOCK.at)
    /\ files' = SweptFiles(JOBS, files, JOBS_LOCK.at)
    /\ JOBS_LOCK' = Unlocked
    /\ UNCHANGED <<now, issued, thread, startResp, polled>>

cleanup_old_jobs_and_files == cleanup_scan \/ cleanup_delete

\* /health is the sweep and nothing else.
health == cleanup_old_jobs_and_files

\* Mutant of ProcessingFields: the status is left as it was.
ProcessingFieldsNoStatus == [progress_percent |-> 1, error |-> ""]

\* The keyword arguments of the worker's update_job calls.
ProcessingFields == [status |-> "processing", progress_percent |-> 1, error |-> ""]

\* Mutants of progress: no room left for 100, and rows left instead of done.
progressTo100(done_rows, total_rows) == (done_rows * 100) \div total_rows

progressRemaining(done_rows, total_rows) ==
    (((total_rows - done_rows) * 98) \div total_rows) + 1

\* Mutant of progress: the share of the rows done, in percent.
progressFloor100(done_rows, total_rows) ==
    LET p == (done_rows * 100) \div total_rows
    IN  IF p > 99 THEN 99 ELSE p

\* The pairs for which the float product (done_rows / total_rows) * 98 is
\* just below the integer 98 * done_rows / total_rows, so that int() gives
\* one less.  Among total_rows up to 97 these are the only ones.
RoundsBelow(done_rows, total_rows) ==
    total_rows = 49 /\ done_rows \in {1, 2, 4, 8, 16, 27, 32}

\* int((done_rows / total_rows) * 98) + 1, at most 99.
progress(done_rows, total_rows) ==
    LET q == (done_rows * 98) \div total_rows
        p == (IF RoundsBelow(done_rows, total_rows) THEN q - 1 ELSE q) + 1
    IN  IF p > 99 THEN 99 ELSE p

ProgressFields(done_rows, total_rows) ==
    [progress_percent |-> progress(done_rows, total_rows)]

DoneFields(stored) ==
    [status |-> "done", progress_percent |-> 100, file_url |-> FileUrl(stored)]

\* Mutant of FailedFields: the progress is left as it was.
FailedFieldsFrozen(msg) == [status |-> "failed", error |-> msg]

FailedFields(msg) == [status |-> "failed", progress_percent |-> 0, error |-> msg]

\* Mutant of Raise: the fault ends the thread and the record is not updated.
RaiseUncaught(job_id, msg) ==
    /\ JOBS' = JOBS
    /\ thread' = [thread EXCEPT ![job_id].pc = "finished"]

\* The except clause of generate_excel_job: the thread ends after the update.
Raise(job_id, msg) ==
    /\ LockFree
    /\ JOBS' = update_job(JOBS, job_id, FailedFields(msg))
    /\ thread' = [thread EXCEPT ![job_id].pc = "finished"]

\* Mutant of AfterSheet: the loop over the sheets ends after the first one.
AfterSheetBreak(t) == [t EXCEPT !.pc = "save"]

\* Position after the rows of sheet si are written.
AfterSheet(t) ==
    IF t.si < Len(t.parsed)
    THEN [t EXCEPT !.pc = "sheet", !.si = t.si + 1, !.ri = 1]
    ELSE [t EXCEPT !.pc = "save"]

\* Where the worker goes once total_rows is known.
AfterParseNoBranch(parsed, total_rows) ==
    IF parsed = <<>> THEN "save" ELSE "sheet"

AfterParse(parsed, total_rows) ==
    IF total_rows = 0 THEN "save_template" ELSE "sheet"

\* Where the worker goes after the done update of the total_rows == 0 branch:
\* the return statement ends the thread.
AfterTemplateDoneNoReturn == "save"

AfterTemplateDone == "finished"

\* if sheet_name not in wb.sheetnames: wb.create_sheet(sheet_name)
OpenSheetNoCreate(wb, sheet_name) == wb

OpenSheet(wb, sheet_name) == wb \cup {sheet_name}

RECURSIVE SumRows(_, _)
SumRows(parsed, k) ==
    IF k = 0 THEN 0 ELSE SumRows(parsed, k - 1) + Len(parsed[k].rows)

WorkerBegin(job_id) ==
    /\ thread[job_id].pc = "begin"
    /\ LockFree
    /\ JOBS' = update_job(JOBS, job_id, ProcessingFields)
    /\ thread' = [thread EXCEPT ![job_id].pc = "load"]
    /\ UNCHANGED <<files, now, issued, startResp, polled, JOBS_LOCK>>

WorkerLoad(job_id) ==
    /\ thread[job_id].pc = "load"
    /\ \E exists \in BOOLEAN :
          IF exists
          THEN /\ thread' = [thread EXCEPT ![job_id].pc = "parse",
                                           ![job_id].wb = TemplateSheets]
               /\ UNCHANGED JOBS
          ELSE Raise(job_id, "Template not found")
    /\ UNCHANGED <<files, now, issued, startResp, polled, JOBS_LOCK>>

\* parsed_sheet_rows
ParseSheets(sheets) ==
    [k \in 1..Len(sheets) |->
        [name |-> sheets[k].name,
         start_row |-> sheets[k].start_row.val,
         rows |-> parse_rows_text(sheets[k].rows_text)]]

WorkerParse(job_id) ==
    /\ thread[job_id].pc = "parse"
    /\ LET sheets == thread[job_id].sheets
           parsed == ParseSheets(sheets)
           total_rows == SumRows(parsed, Len(parsed))
       IN  IF \E k \in 1..Len(sheets) : ~sheets[k].start_row.isint
           THEN Raise(job_id, "invalid literal for int()")
           ELSE /\ thread' = [thread EXCEPT
                                ![job_id].parsed = parsed,
                                ![job_id].total_rows = total_rows,
                                ![job_id].pc = AfterParse(parsed, total_rows)]
                /\ UNCHANGED JOBS
    /\ UNCHANGED <<files, now, issued, startResp, polled, JOBS_LOCK>>

\* total_rows == 0: the template is saved as it is.
WorkerSaveTemplate(job_id) ==
    /\ thread[job_id].pc = "save_template"
    /\ \E saved \in BOOLEAN :
          IF saved
          THEN /\ files' = files \cup {StoredName(job_id)}
               /\ thread' = [thread EXCEPT ![job_id].pc = "done_template"]
               /\ UNCHANGED JOBS
          ELSE /\ Raise(job_id, "save failed")
               /\ UNCHANGED files
    /\ UNCHANGED <<now, issued, startResp, polled, JOBS_LOCK>>

WorkerDoneTemplate(job_id) ==
    /\ thread[job_id].pc = "done_template"
    /\ LockFree
    /\ JOBS' = update_job(JOBS, job_id, DoneFields(StoredName(job_id)))
    /\ thread' = [thread EXCEPT ![job_id].pc = AfterTemplateDone]
    /\ UNCHANGED <<files, now, issued, startResp, polled, JOBS_LOCK>>

\* The head of the loop over parsed_sheet_rows: a missing sheet is created.
WorkerOpenSheet(job_id) ==
    /\ thread[job_id].pc = "sheet"
    /\ LET t == thread[job_id]
           cur == t.parsed[t.si]
           opened == [t EXCEPT !.wb = OpenSheet(t.wb, cur.name)]
       IN  thread' = [thread EXCEPT ![job_id] =
                        IF cur.rows = <<>> THEN AfterSheet(opened)
                        ELSE [opened EXCEPT !.pc = "row", !.ri = 1]]
    /\ UNCHANGED <<JOBS, files, now, issued, startResp, polled, JOBS_LOCK>>

\* One pass of the loop over rows: the cells of the row, then the progress.
\* ws.cell raises ValueError for a row below 1.
WorkerRow(job_id) ==
    /\ thread[job_id].pc = "row"
    /\ LockFree
    /\ LET t == thread[job_id]
           cur == t.parsed[t.si]
           r == cur.start_row + t.ri - 1
           done_rows == t.done_rows + 1
           counted == [t EXCEPT !.done_rows = done_rows]
       IN  IF r < 1
           THEN Raise(job_id, "Row or column values must be at least 1")
           ELSE /\ JOBS' = update_job(JOBS, job_id,
                                      ProgressFields(done_rows, t.total_rows))
                /\ thread' = [thread EXCEPT ![job_id] =
                                IF t.ri < Len(cur.rows)
                                THEN [counted EXCEPT !.ri = t.ri + 1]
                                ELSE AfterSheet(counted)]
    /\ UNCHANGED <<files, now, issued, startResp, polled, JOBS_LOCK>>

WorkerSave(job_id) ==
    /\ thread[job_id].pc = "save"
    /\ \E saved \in BOOLEAN :
          IF saved
          THEN /\ files' = files \cup {StoredName(job_id)}
               /\ thread' = [thread EXCEPT ![job_id].pc = "done"]
               /\ UNCHANGED JOBS
          ELSE /\ Raise(job_id, "save failed")
               /\ UNCHANGED files
    /\ UNCHANGED <<now, issued, startResp, polled, JOBS_LOCK>>

WorkerDone(job_id) ==
    /\ thread[job_id].pc = "done"
    /\ LockFree
    /\ JOBS' = update_job(JOBS, job_id, DoneFields(StoredName(job_id)))
    /\ thread' = [thread EXCEPT ![job_id].pc = "finished"]
    /\ UNCHANGED <<files, now, issued, startResp, polled, JOBS_LOCK>>

\* One step of the generate_excel_job thread of job_id.
generate_excel_job(job_id) ==
    \/ WorkerBegin(job_id)
    \/ WorkerLoad(job_id)
    \/ WorkerParse(job_id)
    \/ WorkerSaveTemplate(job_id)
    \/ WorkerDoneTemplate(job_id)
    \/ WorkerOpenSheet(job_id)
    \/ WorkerRow(job_id)
    \/ WorkerSave(job_id)
    \/ WorkerDone(job_id)

\* ----------------------------------------------------------------- routes
BadRequest == [code |-> 400, error |-> "sheets must be a list"]

Started(job_id) ==
    [code |-> 200, job_id |-> job_id, status |-> "queued", progress_percent |-> 0]

\* Mutant of uuid4: the id of the job before is handed out again.
uuid4Reused == IF issued = 0 THEN 1 ELSE issued

\* uuid.uuid4(): an id no earlier call has returned.
uuid4 == issued + 1

excel_start(payload) ==
    LET swept == SweptJobs(JOBS, now)
        sheets == SheetsOf(payload)
        job_id == uuid4
    IN  /\ LockFree
        /\ ToDelete(JOBS, now) = {}
        /\ files' = SweptFiles(JOBS, files, now)
        /\ IF ~IsList(sheets)
           THEN /\ JOBS' = swept
                /\ startResp' = BadRequest
                /\ UNCHANGED <<issued, thread>>
           ELSE /\ issued < MaxJobs
                /\ issued' = issued + 1
                /\ JOBS' = [j \in (DOMAIN swept) \cup {job_id} |->
                              IF j = job_id THEN NewJob(now, StoredName(job_id))
                              ELSE swept[j]]
                /\ thread' = [thread EXCEPT ![job_id] =
                                [IdleThread EXCEPT !.pc = "begin",
                                                   !.sheets = sheets.items]]
                /\ startResp' = Started(job_id)
        /\ UNCHANGED <<now, polled, JOBS_LOCK>>

NotFound ==
    [code |-> 404, error |-> "job not found", status |-> "failed",
     progress_percent |-> 0]

JobView(job_id, job) ==
    [code |-> 200, job_id |-> job_id, status |-> job.status,
     progress_percent |-> job.progress_percent,
     file_url |-> IF job.status = "done" THEN job.file_url ELSE NoUrl,
     error |-> IF job.status = "failed" THEN job.error ELSE ""]

\* get_job and the body excel_status builds from it
StatusResponse(jobs, job_id) ==
    IF job_id \notin DOMAIN jobs THEN NotFound ELSE JobView(job_id, jobs[job_id])

excel_status(job_id) ==
    LET swept == SweptJobs(JOBS, now)
    IN  /\ LockFree
        /\ ToDelete(JOBS, now) = {}
        /\ JOBS' = swept
        /\ files' = SweptFiles(JOBS, files, now)
        /\ polled' = [job_id |-> job_id, body |-> StatusResponse(swept, job_id)]
        /\ UNCHANGED <<now, issued, thread, startResp, JOBS_LOCK>>

Next ==
    \/ Tick
    \/ health
    \/ \E payload \in Payloads : excel_start(payload)
    \/ \E job_id \in JobIds : excel_status(job_id)
    \/ \E job_id \in JobIds : generate_excel_job(job_id)

Spec == Init /\ [][Next]_vars

\* ----------------------------------------------------------------- claims
Terminal == {"done", "failed"}

Present == DOMAIN JOBS

\* The four fields of a registry record a client can observe.
Observable(job) ==
    <<job.status, job.progress_percent, job.error, job.file_url>>

\* C1: once a job's record has status done or failed, no step changes its
\* status, progress_percent, error or file_url; the record can only be
\* removed from the registry.
C1_TerminalAbsorbing ==
    [][\A j \in Present :
          JOBS[j].status \in Terminal =>
             \/ j \notin DOMAIN JOBS'
             \/ Observable(JOBS'[j]) = Observable(JOBS[j])]_vars

\* A finished job is in the registry as done and a later poll has read it.
C1_Witness ==
    \E j \in Present :
       /\ JOBS[j].status = "done"
       /\ thread[j].pc = "finished"
       /\ polled.job_id = j
       /\ polled.body.status = "done"
       /\ \E k \in Present \ {j} : JOBS[k].status = "failed"

\* C2: for every job in the registry progress_percent is in 0..100, and it
\* is 100 exactly when the status is done.
C2_ProgressRange ==
    \A j \in Present :
       /\ JOBS[j].progress_percent \in 0..100
       /\ (JOBS[j].progress_percent = 100) <=> (JOBS[j].status = "done")

\* A job has written its last row and is still processing, at 99 percent.
C2_Witness ==
    \E j \in Present :
       /\ JOBS[j].status = "processing"
       /\ JOBS[j].progress_percent = 99
       /\ thread[j].done_rows = thread[j].total_rows

\* C3: of two polls of one job, the earlier returning queued or processing
\* and the later returning queued, processing or done, the later reports a
\* progress_percent at least as large as the earlier.
C3_PolledProgressMonotone ==
    [][( /\ polled'.job_id = polled.job_id
         /\ polled.body.code = 200
         /\ polled'.body.code = 200
         /\ polled.body.status \in {"queued", "processing"}
         /\ polled'.body.status \in {"queued", "processing", "done"} )
       => polled'.body.progress_percent >= polled.body.progress_percent]_vars

\* A poll has observed a job part of the way through its rows.
C3_Witness ==
    /\ polled.body.code = 200
    /\ polled.body.status = "processing"
    /\ polled.body.progress_percent > 1
    /\ polled.body.progress_percent < 99

Spawned(j) == thread[j].pc # "none"

\* The sheets parse to no row at all.
ZeroRows(sheets) ==
    \A k \in 1..Len(sheets) : parse_rows_text(sheets[k].rows_text) = <<>>

\* The faults a worker can meet, by the message str(e) leaves in the record.
FaultMessages ==
    {"Template not found", "invalid literal for int()",
     "Row or column values must be at least 1", "save failed"}

StartRejected ==
    /\ startResp' = BadRequest
    /\ issued' = issued
    /\ thread' = thread
    /\ DOMAIN JOBS' \subseteq DOMAIN JOBS

StartAccepted ==
    /\ issued' = issued + 1
    /\ startResp' = Started(issued')
    /\ issued' \notin DOMAIN JOBS
    /\ issued' \in DOMAIN JOBS'
    /\ JOBS'[issued'].status = "queued"
    /\ thread[issued'].pc = "none"
    /\ thread'[issued'].pc = "begin"

UnknownSheet(sheets) ==
    \E k \in 1..Len(sheets) : sheets[k].name \notin TemplateSheets

C7_NotFoundIsNotFailed ==
    (polled.job_id # 0 /\ polled.body.status = "failed") =>
       /\ polled.body.code = 200
       /\ thread[polled.job_id].pc = "finished"

\* C8: a record with a non-empty file_url has status done, a status response
\* with a non-empty file_url has status done, and the step that makes a
\* record done sets its file_url and progress 100 in that same step.
C8_UrlOnlyWithDone ==
    /\ [](\A j \in Present : JOBS[j].file_url # NoUrl => JOBS[j].status = "done")
    /\ []("file_url" \in DOMAIN polled.body =>
             (polled.body.file_url # NoUrl => polled.body.status = "done"))
    /\ [][\A j \in Present \cap DOMAIN JOBS' :
             (JOBS[j].status # "done" /\ JOBS'[j].status = "done") =>
                /\ JOBS[j].file_url = NoUrl
                /\ JOBS'[j].file_url = FileUrl(StoredName(j))
                /\ JOBS'[j].progress_percent = 100]_vars

\* A poll has returned done with the file_url of the job's stored file.
C8_Witness ==
    /\ polled.body.code = 200
    /\ polled.body.status = "done"
    /\ polled.body.file_url = FileUrl(StoredName(polled.job_id))
    /\ \E k \in Present : JOBS[k].status = "processing"

\* C9: a start call issues an id no job has had; a step of the worker of
\* job b leaves every other job's record as it is, present or absent; and a
\* record changes only in a step of its own worker, so that no step taken
\* for another job alters or lowers its status, progress, error or file_url.
C9_NoInterference ==
    [][/\ issued' # issued =>
             (issued' \notin DOMAIN JOBS /\ thread[issued'].pc = "none"
              /\ startResp'.job_id = issued')
       /\ \A b \in JobIds :
             generate_excel_job(b) =>
                \A a \in JobIds \ {b} :
                   /\ (a \in DOMAIN JOBS') <=> (a \in DOMAIN JOBS)
                   /\ a \in DOMAIN JOBS => JOBS'[a] = JOBS[a]
       /\ \A a \in Present \cap DOMAIN JOBS' :
             thread'[a] = thread[a] => JOBS'[a] = JOBS[a]]_vars

\* Two jobs are processing at once, each part of the way through its rows.
C9_Witness ==
    \E a, b \in Present :
       /\ a # b
       /\ JOBS[a].status = "processing"
       /\ JOBS[b].status = "processing"
       /\ JOBS[a].progress_percent > 1
       /\ JOBS[b].progress_percent > JOBS[a].progress_percent

\* The fields of a status response the claim compares.
PolledFields(body) ==
    <<body.status, body.progress_percent, body.error,
      IF "file_url" \in DOMAIN body THEN body.file_url ELSE NoUrl>>

PolledTerminal ==
    /\ polled.body.code = 200
    /\ polled.body.status \in Terminal

\* C10 as claimed: after a poll has returned done or failed for a job, every
\* later poll for that id returns the same status, progress_percent, error
\* and file_url.
C10_TerminalPollStable ==
    [][(PolledTerminal /\ excel_status(polled.job_id))
       => PolledFields(polled'.body) = PolledFields(polled.body)]_vars

\* C10 amended: after a poll has returned done or failed for a job, every
\* later poll for that id returns the same response for as long as the
\* record is in the registry; once the sweep has removed the record the
\* poll returns the not-found response.
C10_TerminalPollStableUntilSwept ==
    [][(PolledTerminal /\ excel_status(polled.job_id))
       => IF polled.job_id \in DOMAIN JOBS'
          THEN polled'.body = polled.body
          ELSE polled'.body = NotFound]_vars

\* A done job was polled, has expired, and the poll after that was answered
\* not found.
C10_Witness ==
    /\ polled.job_id # 0
    /\ polled.body = NotFound
    /\ thread[polled.job_id].pc = "finished"
    /\ thread[polled.job_id].done_rows > 0
    /\ polled.job_id \notin Present

FaultMessageAt(pc) ==
    CASE pc = "load" -> "Template not found"
      [] pc = "parse" -> "invalid literal for int()"
      [] pc = "row" -> "Row or column values must be at least 1"
      [] OTHER -> "save failed"

\* C12: a worker that ends at a fault (template, start_row, cell write,
\* save) writes status failed and the fault's message into its record in
\* that step, and no ended worker leaves its record queued or processing.
C12_FaultsBecomeFailed ==
    /\ [](\A j \in Present :
            thread[j].pc = "finished" => JOBS[j].status \in Terminal)
    /\ [][\A j \in Present :
            ( /\ thread[j].pc \in {"load", "parse", "row", "save", "save_template"}
              /\ thread'[j].pc = "finished" )
            => /\ j \in DOMAIN JOBS'
               /\ JOBS'[j].status = "failed"
               /\ JOBS'[j].error = FaultMessageAt(thread[j].pc)]_vars

\* A worker met a fault in a cell write after a row had gone well, and its
\* record is failed with the message.
C12_Witness ==
    \E j \in Present :
       /\ thread[j].pc = "finished"
       /\ thread[j].done_rows >= 1
       /\ JOBS[j].status = "failed"
       /\ JOBS[j].error = "Row or column values must be at least 1"

\* C13: the stored file of every job whose record is done is in the output
\* directory.
C13_DoneHasFile ==
    \A j \in Present :
       JOBS[j].status = "done" => JOBS[j].stored_filename \in files

\* A job is done with its file stored after a sweep has removed another job.
C13_Witness ==
    \E j \in Present :
       /\ JOBS[j].status = "done"
       /\ JOBS[j].stored_filename \in files
       /\ \E k \in JobIds \ Present : Spawned(k)

\* C14: a record enters the registry as queued, before its thread has taken
\* a step; the first step of the thread makes it processing; and the status
\* changes only from queued to processing and from processing to done or
\* failed.
C14_StatusOrder ==
    [][/\ \A j \in (DOMAIN JOBS') \ Present :
             /\ JOBS'[j].status = "queued"
             /\ thread[j].pc = "none"
             /\ thread'[j].pc = "begin"
       /\ \A j \in Present \cap DOMAIN JOBS' :
             /\ JOBS'[j].status # JOBS[j].status =>
                   <<JOBS[j].status, JOBS'[j].status>> \in
                      {<<"queued", "processing">>, <<"processing", "done">>,
                       <<"processing", "failed">>}
             /\ (thread[j].pc = "begin" /\ thread'[j].pc # "begin") =>
                   JOBS'[j].status = "processing"]_vars

\* One job is processing while a later one is still queued.
C14_Witness ==
    \E j, k \in Present :
       /\ JOBS[j].status = "processing"
       /\ JOBS[k].status = "queued"
       /\ thread[k].pc = "begin"

\* C17: a step of a worker whose job has no record leaves the registry as
\* it is, and the worker goes on.
C17_UpdateAbsentNoOp ==
    [][\A j \in JobIds :
          (Spawned(j) /\ thread'[j] # thread[j] /\ j \notin Present)
          => JOBS' = JOBS]_vars

\* A job was swept while its worker ran; the worker saved its file after
\* that and ended.
C17_Witness ==
    \E j \in JobIds \ Present :
       /\ thread[j].pc = "finished"
       /\ StoredName(j) \in files

\* C18: no thread holds JOBS_LOCK while it does file I/O.  The sweep that
\* holds the lock is in its loop over to_delete, at os.path.exists and
\* os.remove for the stored file of each job in it.
C18_NoFileIOUnderLock ==
    ~(JOBS_LOCK.held /\ ToDelete(JOBS, JOBS_LOCK.at) # {})

\* C19: every record with status failed has progress_percent 0.
C19_FailedHasZeroProgress ==
    \A j \in Present :
       JOBS[j].status = "failed" => JOBS[j].progress_percent = 0

\* A job failed after rows had been written and progress reported.
C19_Witness ==
    \E j \in Present :
       /\ JOBS[j].status = "failed"
       /\ thread[j].done_rows >= 1

\* C20: every file in the output directory is the stored file of a job in
\* the registry.
C20_NoOrphanFiles ==
    \A f \in files : \E j \in Present : JOBS[j].stored_filename = f

\* The request bodies of the fair specification: one with no rows, one that
\* completes, and one for each fault of the worker's input.
\* The scheduler lets every worker thread run, and the request that holds
\* the lock for the sweep comes to the end of its loop.
FairPayloads ==
    { [filename |-> "f", sheets |-> JsonList(<<Sheet("Nope", IntRow(1), BlankText)>>)],
      [filename |-> "f", sheets |-> JsonList(<<Sheet("Nope", IntRow(1), OneRowText)>>)],
      [filename |-> "f", sheets |-> JsonList(<<Sheet("Sheet1", BadRow, OneRowText)>>)],
      [filename |-> "f", sheets |-> JsonList(<<Sheet("Sheet1", IntRow(0), OneRowText)>>)] }

FairNext ==
    \/ Tick
    \/ health
    \/ \E payload \in FairPayloads : excel_start(payload)
    \/ \E job_id \in JobIds : excel_status(job_id)
    \/ \E job_id \in JobIds : generate_excel_job(job_id)

FairSpec ==
    /\ Init
    /\ [][FairNext]_vars
    /\ \A job_id \in JobIds : WF_vars(generate_excel_job(job_id))
    /\ WF_vars(cleanup_delete)

\* C15: under fair scheduling the worker of every started job ends, and by
\* then its record is done or failed unless the sweep has removed it.
C15_EventuallyTerminal ==
    \A j \in JobIds :
       Spawned(j) ~>
          /\ thread[j].pc = "finished"
          /\ (j \in Present => JOBS[j].status \in Terminal)

\* A worker has ended with a terminal record although the sweep took the
\* lock and removed another job while it ran.
C15_Witness ==
    \E j \in Present :
       /\ thread[j].pc = "finished"
       /\ JOBS[j].status \in Terminal
       /\ JOBS[j].created_at < now
       /\ \E k \in JobIds \ Present : thread[k].pc = "finished"

\* ------------------------------------------------------- progress of a job
\* The largest total_rows of the progress specification.
MaxTotal == 49

\* A rows_text of n lines with one cell each.
RECURSIVE RowsText(_)
RowsText(n) == IF n = 0 THEN <<>> ELSE RowsText(n - 1) \o <<"a", "\n">>

\* The most lines of one sheet of the progress specification.
RowsPerSheet == 7

\* The sheets of a request with n lines in all.
RECURSIVE SheetsWithRows(_)
SheetsWithRows(n) ==
    IF n = 0 THEN <<>>
    ELSE IF n <= RowsPerSheet THEN <<Sheet("Sheet1", IntRow(1), RowsText(n))>>
    ELSE <<Sheet("Sheet1", IntRow(1), RowsText(RowsPerSheet))>>
         \o SheetsWithRows(n - RowsPerSheet)

\* The state after /excel/start has accepted a first request whose sheets
\* have total lines in all, for every total up to MaxTotal.
InitProgress ==
    \E total \in 0..MaxTotal :
       /\ JOBS = [j \in {1} |-> NewJob(0, StoredName(1))]
       /\ files = {}
       /\ now = 0
       /\ issued = 1
       /\ thread = [j \in JobIds |->
                      IF j = 1
                      THEN [IdleThread EXCEPT
                              !.pc = "begin",
                              !.sheets = SheetsWithRows(total)]
                      ELSE IdleThread]
       /\ startResp = Started(1)
       /\ polled = [job_id |-> 0, body |-> [code |-> 0]]
       /\ JOBS_LOCK = Unlocked

\* The worker of that job runs alone.
NextProgress == generate_excel_job(1)

SpecProgress == InitProgress /\ [][NextProgress]_vars

\* The jobs whose worker has counted a row and not yet ended.
Counting ==
    {j \in Present : JOBS[j].status = "processing" /\ thread[j].done_rows >= 1}

\* C16 as stated: after each completed row progress_percent is
\* floor(100 * done_rows / total_rows), held within 0..99.
C16_FloorOfHundred ==
    \A j \in Counting :
       LET p == (100 * thread[j].done_rows) \div thread[j].total_rows
       IN  JOBS[j].progress_percent = (IF p > 99 THEN 99 ELSE p)

\* C16: after each completed row progress_percent is within 1..99 and is
\* floor(98 * done_rows / total_rows) + 1, or one less than that where
\* 98 * done_rows is a multiple of total_rows and the float product falls
\* short of it.
C16_FloorOfNinetyEightPlusOne ==
    \A j \in Counting :
       LET d == thread[j].done_rows
           t == thread[j].total_rows
           q == (98 * d) \div t
           p == JOBS[j].progress_percent
       IN  /\ p \in 1..99
           /\ p \in {q, q + 1}
           /\ ((98 * d) % t # 0 \/ d = t) => p = q + 1

\* 27 of 49 rows are done: 98 * 27 / 49 is 54, the float product is below
\* 54, and the progress is 54 and not 55.
C16_Witness ==
    \E j \in Counting :
       /\ thread[j].total_rows = 49
       /\ thread[j].done_rows = 27
       /\ JOBS[j].progress_percent = 54
====
